---- MODULE Spec2Model ----
(***************************************************************************)
(* Model of scripts/fix-any-types.py (class TypeScriptAnyReplacer).        *)
(*                                                                         *)
(* Text is modelled as a sequence of tokens.  A token is either a whole    *)
(* run of word characters taken from the vocabulary below, or one single   *)
(* non-word character.  No word token other than "any" contains the text   *)
(* "any", and every literal of every pattern of the script is a sequence   *)
(* of whole tokens, so a regular expression of the script matches the      *)
(* joined text exactly where its token form matches the token sequence.    *)
(***************************************************************************)
EXTENDS Integers, Sequences, FiniteSets, TLC

\* ------------------------------------------------------------------ text
\* The single non-word characters of the vocabulary ("\n" is the line
\* terminator as Python's text mode hands it to the program).
NonWordTokens ==
    { "(", ")", ":", " ", "=", ">", "<", "[", "]", ",", ";", "{", "}",
      ".", "/", "@", "-", "\n" }

\* \w : every token that is not one of the single non-word characters
IsWord(t) == t \notin NonWordTokens

\* \s
IsSpace(t) == t \in { " ", "\n" }

\* .  (re without DOTALL: anything but a newline)
IsDot(t) == t # "\n"

\* ------------------------------------------------------- pattern elements
Lit(t)       == [k |-> "lit", t |-> t,  sub |-> <<>>]
Lits(ts)     == [i \in 1..Len(ts) |-> Lit(ts[i])]
WordBoundary == [k |-> "\\b",    t |-> "", sub |-> <<>>]   \* \b
Spaces       == [k |-> "\\s*",   t |-> "", sub |-> <<>>]   \* \s*
Word         == [k |-> "\\w+",   t |-> "", sub |-> <<>>]   \* \w+
WordGroup    == [k |-> "(\\w+)", t |-> "", sub |-> <<>>]   \* (\w+)
Lazy         == [k |-> ".*?",    t |-> "", sub |-> <<>>]   \* .*?
Greedy       == [k |-> ".*",     t |-> "", sub |-> <<>>]   \* .*
OneOf(ts)    == [k |-> "[]",     t |-> "", sub |-> ts]     \* [...]
Ahead(p)     == [k |-> "(?=)",   t |-> "", sub |-> p]      \* (?=p)
End          == [k |-> "$",      t |-> "", sub |-> <<>>]   \* $
StrayClose   == [k |-> ")",      t |-> "", sub |-> <<>>]   \* unbalanced )

InSeq(t, ts) == \E j \in 1..Len(ts) : ts[j] = t

\* re.compile: the only way a pattern of the script fails to compile is an
\* unbalanced closing parenthesis
Compiles(p) == \A j \in 1..Len(p) : p[j].k # ")"

\* ------------------------------------------------------------ the matcher
NoMatch == <<0, 0, 0>>

InClass(kind, t) ==
    CASE kind = "\\s*"           -> IsSpace(t)
      [] kind \in {"\\w+", "(\\w+)"} -> IsWord(t)
      [] OTHER                   -> IsDot(t)

RECURSIVE RunLen(_, _, _)
\* number of consecutive tokens of s from position i that are in the class
RunLen(kind, s, i) ==
    IF i <= Len(s) /\ InClass(kind, s[i]) THEN 1 + RunLen(kind, s, i + 1) ELSE 0

AtBoundary(s, i) ==
    (i > 1 /\ IsWord(s[i - 1])) # (i <= Len(s) /\ IsWord(s[i]))

RECURSIVE Match(_, _, _, _, _)
RECURSIVE TryDown(_, _, _, _, _, _, _)
RECURSIVE TryUp(_, _, _, _, _, _, _)

\* Backtracking match of p[k..] against s at position i; g is the span of
\* group 1 so far.  The result is <<end, group start, group end>> (ends are
\* exclusive), or NoMatch.
Match(p, k, s, i, g) ==
    IF k > Len(p) THEN <<i, g[1], g[2]>>
    ELSE LET e == p[k] IN
      CASE e.k = "lit" ->
             IF i <= Len(s) /\ s[i] = e.t THEN Match(p, k + 1, s, i + 1, g)
             ELSE NoMatch
        [] e.k = "[]" ->
             IF i <= Len(s) /\ InSeq(s[i], e.sub) THEN Match(p, k + 1, s, i + 1, g)
             ELSE NoMatch
        [] e.k = "\\b" ->
             IF AtBoundary(s, i) THEN Match(p, k + 1, s, i, g) ELSE NoMatch
        [] e.k = "$" ->
             IF i = Len(s) + 1 \/ (i = Len(s) /\ s[i] = "\n")
             THEN Match(p, k + 1, s, i, g) ELSE NoMatch
        [] e.k = "(?=)" ->
             IF Match(e.sub, 1, s, i, g)[1] # 0 THEN Match(p, k + 1, s, i, g)
             ELSE NoMatch
        [] e.k \in {"\\s*", ".*"} ->
             TryDown(p, k, s, i, RunLen(e.k, s, i), 0, g)
        [] e.k \in {"\\w+", "(\\w+)"} ->
             TryDown(p, k, s, i, RunLen(e.k, s, i), 1, g)
        [] e.k = ".*?" ->
             TryUp(p, k, s, i, 0, RunLen(e.k, s, i), g)
        [] OTHER -> NoMatch

\* greedy repetition: longest first
TryDown(p, k, s, i, j, lo, g) ==
    IF j < lo THEN NoMatch
    ELSE LET r == Match(p, k + 1, s, i + j,
                        IF p[k].k = "(\\w+)" THEN <<i, i + j>> ELSE g)
         IN IF r[1] # 0 THEN r ELSE TryDown(p, k, s, i, j - 1, lo, g)

\* lazy repetition: shortest first
TryUp(p, k, s, i, j, hi, g) ==
    IF j > hi THEN NoMatch
    ELSE LET r == Match(p, k + 1, s, i + j, g)
         IN IF r[1] # 0 THEN r ELSE TryUp(p, k, s, i, j + 1, hi, g)

\* re.search(pattern, s) is not None
Search(p, s) == \E i \in 1..Len(s) : Match(p, 1, s, i, <<0, 0>>)[1] # 0

\* ------------------------------------------------------------ replacement
Slice(s, a, b) == IF b <= a THEN <<>> ELSE SubSeq(s, a, b - 1)

\* str.replace('any', 'unknown')
ReplaceAny(s) == [j \in 1..Len(s) |-> IF s[j] = "any" THEN "unknown" ELSE s[j]]

Str(ts)  == [callable |-> FALSE, text |-> ts]
Lambda   == [callable |-> TRUE,  text |-> <<>>]   \* lambda m: m.group(0).replace('any', 'unknown')

RECURSIVE ExpandTemplate(_, _)
\* a replacement string with its \1 replaced by the text of group 1
ExpandTemplate(text, group) ==
    IF text = <<>> THEN <<>>
    ELSE (IF Head(text) = "\\1" THEN group ELSE <<Head(text)>>)
         \o ExpandTemplate(Tail(text), group)

Expand(repl, s, i, r) ==
    IF repl.callable THEN ReplaceAny(Slice(s, i, r[1]))
    ELSE ExpandTemplate(repl.text, Slice(s, r[2], r[3]))

RECURSIVE SubFrom(_, _, _, _)
\* re.sub from position pos on: leftmost matches, not overlapping
SubFrom(p, repl, s, pos) ==
    IF pos > Len(s) THEN <<>>
    ELSE LET r == Match(p, 1, s, pos, <<0, 0>>)
         IN IF r[1] = 0 THEN <<s[pos]>> \o SubFrom(p, repl, s, pos + 1)
            ELSE Expand(repl, s, pos, r) \o SubFrom(p, repl, s, r[1])

\* re.sub(pattern, replacement, line) for a pattern that compiles
Sub(rule, s) == SubFrom(rule.pattern, rule.replacement, s, 1)

Rule(p, r) == [pattern |-> p, replacement |-> r]

\* ------------------------------------------------------------ __init__
\* self.replacements
replacements == <<
    Rule(Lits(<<"(", "value", ":", " ", "any", ")">>),
         Str(<<"(", "value", ":", " ", "unknown", ")">>)),
    Rule(Lits(<<"=", ">", " ", "any">>) \o <<WordBoundary>>,
         Str(<<"=", ">", " ", "unknown">>)),
    Rule(Lits(<<":", " ", "any", "[", "]">>),
         Str(<<":", " ", "unknown", "[", "]">>)),
    Rule(Lits(<<":", " ", "any">>) \o <<Spaces, Lit("=")>>,
         Str(<<":", " ", "unknown", " ", "=">>)),
    Rule(Lits(<<"Record", "<", "string", ",", " ", "any", ">">>),
         Str(<<"Record", "<", "string", ",", " ", "unknown", ">">>)),
    Rule(Lits(<<"Record", "<">>) \o <<Word>> \o Lits(<<",", " ", "any", ">">>),
         Lambda),
    Rule(Lits(<<"<", "T", " ", "extends", " ", "any", ">">>),
         Str(<<"<", "T", ">">>)),
    Rule(Lits(<<"<", "T", " ", "=", " ", "any", ">">>),
         Str(<<"<", "T", " ", "=", " ", "unknown", ">">>)),
    Rule(Lits(<<"Array", "<", "any", ">">>),
         Str(<<"Array", "<", "unknown", ">">>)),
    Rule(Lits(<<"any", "[", "]">>),
         Str(<<"unknown", "[", "]">>)),
    Rule(<<Lit("("), Lazy>> \o Lits(<<":", " ", "any", ")", " ", "=", ">", " ", "any">>),
         Lambda),
    Rule(Lits(<<"const", " ">>) \o <<Word>> \o Lits(<<":", " ", "any">>) \o <<WordBoundary>>,
         Lambda),
    Rule(Lits(<<"let", " ">>) \o <<Word>> \o Lits(<<":", " ", "any">>) \o <<WordBoundary>>,
         Lambda),
    Rule(Lits(<<"var", " ">>) \o <<Word>> \o Lits(<<":", " ", "any">>) \o <<WordBoundary>>,
         Lambda),
    Rule(<<Lit(":"), Spaces, Lit("any"), Ahead(<<Spaces, OneOf(<<";", ",", "}">>)>>)>>,
         Str(<<":", " ", "unknown">>)),
    Rule(Lits(<<"as", " ", "any">>)
           \o <<Ahead(<<Spaces, OneOf(<<";", ",", ".", ")">>)>>), StrayClose>>,
         Str(<<"as", " ", "unknown">>))
>>

\* self.context_replacements
context_replacements ==
    [ validator |-> <<
        Rule(Lits(<<"(", "v", ":", " ", "any", ")">>),
             Str(<<"(", "v", ":", " ", "unknown", ")">>)),
        Rule(Lits(<<"(", "value", ":", " ", "any", ")">>),
             Str(<<"(", "value", ":", " ", "unknown", ")">>)) >>,
      error_handler |-> <<
        Rule(Lits(<<"catch", " ", "(">>) \o <<WordGroup>> \o Lits(<<":", " ", "any", ")">>),
             Str(<<"catch", " ", "(", "\\1", ":", " ", "unknown", ")">>)),
        Rule(Lits(<<"error", ":", " ", "any">>),
             Str(<<"error", ":", " ", "unknown">>)) >>,
      api_response |-> <<
        Rule(Lits(<<"response", ":", " ", "any">>),
             Str(<<"response", ":", " ", "unknown">>)),
        Rule(Lits(<<"data", ":", " ", "any">>),
             Str(<<"data", ":", " ", "unknown">>)) >>,
      test_file |-> <<
        Rule(Lits(<<"expect", "(">>) \o <<Lazy>> \o Lits(<<":", " ", "any", ")">>),
             Lambda) >> ]

\* self.preserve_patterns
preserve_patterns == <<
    Lits(<<"/", "/", " ", "@", "ts", "-", "ignore">>) \o <<Greedy, Lit("any")>>,
    Lits(<<"/", "/", " ", "eslint", "-", "disable">>) \o <<Greedy, Lit("any")>>,
    Lits(<<"JSON", ".", "parse", "(">>) \o <<Greedy>> \o Lits(<<")", ":", " ", "any">>),
    Lits(<<"window", ".">>) \o <<Word, Greedy>> \o Lits(<<":", " ", "any">>)
>>

\* the labels get_file_context returns
Contexts == {"test_file", "validator", "api_response", "error_handler", "general"}

\* ------------------------------------------------- should_preserve_line
\* a loop that stops one pattern short
should_preserve_line_short(s) ==
    \E j \in 1..(Len(preserve_patterns) - 1) : Search(preserve_patterns[j], s)

should_preserve_line(s) ==
    \E j \in 1..Len(preserve_patterns) : Search(preserve_patterns[j], s)

\* the rules tried before the general ones: `file_context in
\* self.context_replacements` fails for "general"
ContextRules(ctx) ==
    IF ctx \in DOMAIN context_replacements THEN context_replacements[ctx] ELSE <<>>

\* an iteration that counts the rule whether or not it changed the line
ApplyRule_counts_always(rule, s, n) == <<Sub(rule, s), n + 1>>

\* one loop iteration of process_line: re.sub, then the comparison with the
\* line and the count; <<line, changes>>
ApplyRule(rule, s, n) ==
    LET new_line == Sub(rule, s)
    IN IF new_line # s THEN <<new_line, n + 1>> ELSE <<s, n>>

RECURSIVE ApplyRules(_, _, _, _, _)
\* the for loop over `rules` from its k-th rule on; `guarded` says whether
\* the loop body is inside try/except re.error
ApplyRules(rules, k, s, n, guarded) ==
    IF k > Len(rules)
    THEN [line |-> s, changes |-> n, warnings |-> <<>>, raised |-> FALSE]
    ELSE IF Compiles(rules[k].pattern)
    THEN LET r == ApplyRule(rules[k], s, n)
         IN ApplyRules(rules, k + 1, r[1], r[2], guarded)
    ELSE IF guarded
    THEN LET rest == ApplyRules(rules, k + 1, s, n, guarded)
         IN [rest EXCEPT !.warnings = <<k>> \o @]
    ELSE [line |-> s, changes |-> n, warnings |-> <<>>, raised |-> TRUE]

\* process_line(line, file_context) as one call
process_line(s, ctx) ==
    IF should_preserve_line(s)
    THEN [line |-> s, changes |-> 0, warnings |-> <<>>, raised |-> FALSE]
    ELSE LET c == ApplyRules(ContextRules(ctx), 1, s, 0, FALSE)
         IN IF c.raised THEN c
            ELSE ApplyRules(replacements, 1, c.line, c.changes, TRUE)

\* ------------------------------------------------------------------ state
VARIABLES
    \* process_line, one step per rule
    line,            \* the local `line`
    original_line,   \* the argument of the call
    file_context,    \* the argument `file_context`
    changes,         \* the local `changes`; the returned count once returned
    lpc,             \* position in process_line
    rule_idx,        \* position of the current for loop in its rule list
    warnings,        \* the "Warning: Regex error" lines printed, by rule index
    call_no,         \* 1: first call, 2: second call on the first call's result
    first_result,    \* what the first call returned
    applied,         \* history: the rules this call has reached, in order
    \* main and run, one step per candidate file
    disk,            \* the files: path -> [readable, lines]
    disk0,           \* the files as they were when the program started
    paths,           \* args.paths
    dry_run,         \* self.dry_run
    exclude_patterns,\* self.exclude_patterns, args.exclude included
    pc,              \* position in main/run
    all_files,       \* the local `all_files` of run
    file_idx,        \* position of the loop of run in all_files
    changes_made,    \* self.changes_made
    files_processed, \* self.files_processed
    files_modified,  \* the local `files_modified` of run
    stdout,          \* what has been printed
    written,         \* the paths opened for writing, in order
    exit_status      \* what main returned; -1 while it runs

lineVars == <<line, original_line, file_context, changes, lpc, rule_idx,
              warnings, call_no, first_result, applied>>

runVars == <<disk, disk0, paths, dry_run, exclude_patterns, pc, all_files,
             file_idx, changes_made, files_processed, files_modified, stdout,
             written, exit_status>>

vars == <<lineVars, runVars>>

\* ------------------------------------------------------- bounded inputs
\* the phrases lines are put together from
Phrases == {
    <<"const", " ", "x", ":", " ", "any">>,
    <<" ", "=", " ", "foo", "(", ")", ";">>,
    <<";">>,
    <<"[", "]">>,
    <<"(", "value", ":", " ", "any", ")">>,
    <<" ", "=", ">", " ", "any">>,
    <<"function", " ", "check", "(", "v", ":", " ", "any", ")">>,
    <<" ", "{", "}">>,
    <<"Record", "<", "string", ",", " ", "any", ">">>,
    <<"catch", " ", "(", "error", ":", " ", "any", ")">>,
    <<"expect", "(", "f", "(", "x", ":", " ", "any", ")">>,
    <<",", " ", "data", ":", " ", "any", ")">>,
    <<"/", "/", " ", "eslint", "-", "disable", " ">>,
    <<"window", ".", "x">>,
    <<"x">>,
    <<"<", "T", " ", "extends", " ", "any", ">">>
}

MaxPhrases == 2

RECURSIVE Concat(_)
Concat(ps) == IF ps = <<>> THEN <<>> ELSE Head(ps) \o Concat(Tail(ps))

\* the lines of the model: up to MaxPhrases phrases and the terminator
Lines ==
    { Concat(ps) \o <<"\n">> :
        ps \in UNION { [1..n -> Phrases] : n \in 1..MaxPhrases } }

\* ------------------------------------------------------------ process_line
\* no run is in progress
RunIdle ==
    /\ disk = <<>>
    /\ disk0 = <<>>
    /\ paths = <<>>
    /\ dry_run = FALSE
    /\ exclude_patterns = <<>>
    /\ pc = "none"
    /\ all_files = <<>>
    /\ file_idx = 0
    /\ changes_made = 0
    /\ files_processed = 0
    /\ files_modified = 0
    /\ stdout = <<>>
    /\ written = <<>>
    /\ exit_status = -1

InitLine ==
    /\ line \in Lines
    /\ file_context \in Contexts
    /\ original_line = line
    /\ changes = 0
    /\ lpc = "entry"
    /\ rule_idx = 1
    /\ warnings = <<>>
    /\ call_no = 1
    /\ first_result = <<>>
    /\ applied = <<>>
    /\ RunIdle

\* where the loops go once the rule at rule_idx of `rules` is done
AfterContext(k) ==
    IF k < Len(ContextRules(file_context)) THEN <<"context", k + 1>>
    ELSE <<"general", 1>>

AfterGeneral(k) ==
    IF k < Len(replacements) THEN <<"general", k + 1>> ELSE <<"returned", k>>

\* lines 122-126: the preserve check and the initialisation of the locals
Enter ==
    /\ lpc = "entry"
    /\ IF should_preserve_line(line)
       THEN /\ lpc' = "returned"
            /\ rule_idx' = rule_idx
       ELSE /\ lpc' = (IF ContextRules(file_context) # <<>> THEN "context" ELSE "general")
            /\ rule_idx' = 1
    /\ original_line' = line
    /\ changes' = 0
    /\ applied' = <<>>
    /\ UNCHANGED <<line, file_context, warnings, call_no, first_result>>
    /\ UNCHANGED runVars

\* lines 129-137: one iteration of the loop over the context's rules; no
\* handler surrounds re.sub here, so a re.error would leave process_line
ContextRuleStep ==
    /\ lpc = "context"
    /\ LET rule == ContextRules(file_context)[rule_idx]
       IN IF Compiles(rule.pattern)
          THEN \E r \in { ApplyRule(rule, line, changes) } :
                  /\ line' = r[1]
                  /\ changes' = r[2]
                  /\ lpc' = AfterContext(rule_idx)[1]
                  /\ rule_idx' = AfterContext(rule_idx)[2]
          ELSE /\ lpc' = "raised"
               /\ UNCHANGED <<line, changes, rule_idx>>
    /\ applied' = Append(applied, [rules |-> "context", idx |-> rule_idx,
                                   changed |-> line' # line])
    /\ UNCHANGED <<original_line, file_context, warnings, call_no, first_result>>
    /\ UNCHANGED runVars

\* the loop over self.replacements without its try/except: the re.error
\* leaves process_line
GeneralRuleStep_unguarded ==
    /\ lpc = "general"
    /\ LET rule == replacements[rule_idx]
       IN IF Compiles(rule.pattern)
          THEN \E r \in { ApplyRule(rule, line, changes) } :
                  /\ line' = r[1]
                  /\ changes' = r[2]
                  /\ lpc' = AfterGeneral(rule_idx)[1]
                  /\ rule_idx' = AfterGeneral(rule_idx)[2]
          ELSE /\ lpc' = "raised"
               /\ UNCHANGED <<line, changes, rule_idx>>
    /\ applied' = Append(applied, [rules |-> "general", idx |-> rule_idx,
                                   changed |-> line' # line])
    /\ UNCHANGED <<original_line, file_context, warnings, call_no, first_result>>
    /\ UNCHANGED runVars

\* lines 140-151: one iteration of the loop over self.replacements, with
\* its try/except re.error
GeneralRuleStep ==
    /\ lpc = "general"
    /\ LET rule == replacements[rule_idx]
       IN IF Compiles(rule.pattern)
          THEN \E r \in { ApplyRule(rule, line, changes) } :
                  /\ line' = r[1]
                  /\ changes' = r[2]
                  /\ warnings' = warnings
          ELSE /\ warnings' = Append(warnings, rule_idx)
               /\ UNCHANGED <<line, changes>>
    /\ lpc' = AfterGeneral(rule_idx)[1]
    /\ rule_idx' = AfterGeneral(rule_idx)[2]
    /\ applied' = Append(applied, [rules |-> "general", idx |-> rule_idx,
                                   changed |-> line' # line])
    /\ UNCHANGED <<original_line, file_context, call_no, first_result>>
    /\ UNCHANGED runVars

\* the caller calls process_line again, on the line the first call returned
\* and with the same context
CallAgain ==
    /\ lpc = "returned"
    /\ call_no = 1
    /\ first_result' = <<line, changes>>
    /\ call_no' = 2
    /\ lpc' = "entry"
    /\ rule_idx' = 1
    /\ changes' = 0
    /\ warnings' = <<>>
    /\ original_line' = line
    /\ applied' = <<>>
    /\ UNCHANGED <<line, file_context>>
    /\ UNCHANGED runVars

NextLine == Enter \/ ContextRuleStep \/ GeneralRuleStep \/ CallAgain

SpecLine == InitLine /\ [][NextLine]_vars

\* ------------------------------------------------- process_line: properties
\* the line matches at least one preserve pattern
MatchesPreserve(s) ==
    \E j \in 1..Len(preserve_patterns) : Search(preserve_patterns[j], s)

\* some rule of the context or of the general list would change the line
SomeRuleMatches(s, ctx) ==
    \/ \E j \in 1..Len(ContextRules(ctx)) :
          Sub(ContextRules(ctx)[j], s) # s
    \/ \E j \in 1..Len(replacements) :
          Compiles(replacements[j].pattern) /\ Sub(replacements[j], s) # s

C3_Idempotent ==
    (lpc = "returned" /\ call_no = 2)
        => (line = first_result[1] /\ changes = 0)

\* the rule the loop of process_line is at
CurrentRule ==
    IF lpc = "context" THEN ContextRules(file_context)[rule_idx]
    ELSE replacements[rule_idx]

InLoop == lpc \in {"context", "general"}

\* the rules in the order process_line has to reach them, per context
RuleOrders ==
    [ctx \in Contexts |->
        [j \in 1..Len(ContextRules(ctx)) |-> <<"context", j>>]
            \o [j \in 1..Len(replacements) |-> <<"general", j>>]]

RuleOrder(ctx) == RuleOrders[ctx]

\* how many of them have a pattern that does not compile
MalformedRules ==
    [ctx \in Contexts |->
        Cardinality({ j \in 1..Len(RuleOrders[ctx]) :
            ~Compiles((IF RuleOrders[ctx][j][1] = "context"
                       THEN ContextRules(ctx)
                       ELSE replacements)[RuleOrders[ctx][j][2]].pattern) })]

NumChanged(a) == Cardinality({ j \in 1..Len(a) : a[j].changed })

ExampleLine ==
    <<"function", " ", "check", "(", "v", ":", " ", "any", ")", " ", "{", "}", "\n">>

ExampleResult ==
    <<"function", " ", "check", "(", "v", ":", " ", "unknown", ")", " ", "{", "}", "\n">>

C8_Step ==
    InLoop =>
        /\ line' = (IF Compiles(CurrentRule.pattern) THEN Sub(CurrentRule, line)
                    ELSE line)
        /\ changes' = changes + (IF line' # line THEN 1 ELSE 0)

C8_Inv ==
    /\ (InLoop \/ (lpc = "returned" /\ ~MatchesPreserve(original_line))) =>
          /\ Len(applied) <= Len(RuleOrder(file_context))
          /\ \A j \in 1..Len(applied) :
                <<applied[j].rules, applied[j].idx>> = RuleOrder(file_context)[j]
          /\ changes = NumChanged(applied)
          /\ changes <= Len(ContextRules(file_context)) + Len(replacements)
    /\ (lpc = "returned" /\ ~MatchesPreserve(original_line)) =>
          Len(applied) = Len(RuleOrder(file_context))
    /\ (lpc = "returned" /\ original_line = ExampleLine
           /\ file_context = "validator") =>
          (line = ExampleResult /\ changes = 1)

\* C8: on a line no preserve pattern matches, the context's rules and then
\* the general rules are each reached once, in source order, each on the
\* text the previous one left; the count goes up by one exactly when a rule
\* changes the text, so it is the number of rules that changed it and at
\* most the number of rules; the validator example returns count 1
C8_OneCountPerChangingRule == [][C8_Step]_vars /\ []C8_Inv

\* the validator example has been returned: the context rule changed the
\* span and no general rule counted it again
C8_Witness ==
    /\ lpc = "returned"
    /\ call_no = 1
    /\ original_line = ExampleLine
    /\ file_context = "validator"
    /\ applied[1].changed
    /\ changes = 1

C10_Step ==
    (InLoop /\ ~Compiles(CurrentRule.pattern)) =>
        /\ warnings' = Append(warnings, rule_idx)
        /\ line' = line
        /\ changes' = changes
        /\ lpc' # "raised"
        /\ Len(applied') = Len(applied) + 1

C10_Inv ==
    /\ lpc # "raised"
    /\ (lpc = "returned" /\ ~MatchesPreserve(original_line)) =>
          /\ Len(applied) = Len(RuleOrder(file_context))
          /\ Len(warnings) = MalformedRules[file_context]

SortedPaths == <<
    <<"a", "/", "Validator", ".", "ts">>,
    <<"a", "/", "node_modules", "/", "m", ".", "ts">>,
    <<"a", "/", "types", ".", "d", ".", "ts">>,
    <<"a", "/", "vendor", "/", "v", ".", "ts">>,
    <<"b", "/", "notes", ".", "md">>,
    <<"b", "/", "util", ".", "ts">>
>>

Files == { SortedPaths[j] : j \in 1..Len(SortedPaths) }

Rank(f) == CHOOSE j \in 1..Len(SortedPaths) : SortedPaths[j] = f

\* p <= q as Python compares the two path strings
PathLE(p, q) == Rank(p) <= Rank(q)

RECURSIVE SortedFrom(_, _)
SortedFrom(S, j) ==
    IF j > Len(SortedPaths) THEN <<>>
    ELSE (IF SortedPaths[j] \in S THEN <<SortedPaths[j]>> ELSE <<>>)
         \o SortedFrom(S, j + 1)

\* sorted(ts_files)
sorted(S) == SortedFrom(S, 1)

\* what the positional arguments are drawn from: directories and files
Roots == {
    <<"a">>,
    <<"b">>,
    <<"a", "/", "Validator", ".", "ts">>,
    <<"a", "/", "types", ".", "d", ".", "ts">>,
    <<"a", "/", "vendor">>
}

MaxArgs == 2

\* ------------------------------------------------------------ file content
DiskLine(text, eol) == [text |-> text, eol |-> eol]

CleanText    == <<"x", ";">>
ConstText    == <<"const", " ", "x", ":", " ", "any", " ", "=", " ", "foo", "(", ")", ";">>
PreservedText == <<"/", "/", " ", "eslint", "-", "disable", " ",
                   "const", " ", "x", ":", " ", "any">>
ArrowText    == <<"(", "value", ":", " ", "any", ")", " ", "=", ">", " ", "any">>
CheckText    == <<"function", " ", "check", "(", "v", ":", " ", "any", ")", " ", "{", "}">>

Readable(ls) == [readable |-> TRUE, lines |-> ls]

\* a file with nothing to change
CleanFile == Readable(<< DiskLine(CleanText, "\n") >>)

\* LF terminators, the last line without one
LfFile == Readable(<< DiskLine(ConstText, "\n"),
                      DiskLine(PreservedText, "\n"),
                      DiskLine(ArrowText, "") >>)

\* CRLF and CR terminators
CrlfFile == Readable(<< DiskLine(CheckText, "\r\n"),
                        DiskLine(CleanText, "\r"),
                        DiskLine(PreservedText, "\r\n") >>)

\* bytes that are not UTF-8, or a file the process may not read
UnreadableFile == [readable |-> FALSE, lines |-> << DiskLine(ConstText, "\n") >>]

Contents == { CleanFile, LfFile, CrlfFile, UnreadableFile }

\* f.readlines() in text mode: universal newlines turn \r\n and \r into \n
readlines(content) ==
    [j \in 1..Len(content.lines) |->
        content.lines[j].text
          \o (IF content.lines[j].eol = "" THEN <<>> ELSE <<"\n">>)]

\* os.linesep where the script runs (POSIX)
linesep == "\n"

RECURSIVE SplitLines(_, _)
\* the lines of a written text: `cur` is the text of the line being read
SplitLines(ts, cur) ==
    IF ts = <<>> THEN (IF cur = <<>> THEN <<>> ELSE << DiskLine(cur, "") >>)
    ELSE IF Head(ts) = "\n"
         THEN << DiskLine(cur, linesep) >> \o SplitLines(Tail(ts), <<>>)
         ELSE SplitLines(Tail(ts), Append(cur, Head(ts)))

\* f.writelines(modified_lines) on a file opened with 'w' in text mode
writelines(modified_lines) == Readable(SplitLines(Concat(modified_lines), <<>>))

\* ------------------------------------------------------------- file filters
\* self.exclude_patterns as __init__ sets it
builtin_exclude_patterns == <<
    Lits(<<".", "d", ".", "ts">>) \o <<End>>,
    Lits(<<"node_modules", "/">>),
    Lits(<<".", "git", "/">>),
    Lits(<<"dist", "/">>),
    Lits(<<"build", "/">>)
>>

\* what --exclude may add: nothing, or the pattern vendor$
ExcludeArgs == { <<>>, << <<Lit("vendor"), End>> >> }

should_exclude_file(file_path, patterns) ==
    \E j \in 1..Len(patterns) : Search(patterns[j], file_path)

\* str.lower() on the tokens of the paths
Lower(t) == IF t = "Validator" THEN "validator" ELSE t

In(w, s) == \E j \in 1..Len(s) : s[j] = w

get_file_context(file_path) ==
    LET path_lower == [j \in 1..Len(file_path) |-> Lower(file_path[j])]
    IN IF In("test", path_lower) \/ In("spec", path_lower) THEN "test_file"
       ELSE IF In("validator", path_lower) \/ In("validation", path_lower)
            THEN "validator"
       ELSE IF In("api", path_lower)
               /\ (In("client", path_lower) \/ In("response", path_lower))
            THEN "api_response"
       ELSE IF In("error", path_lower) \/ In("exception", path_lower)
            THEN "error_handler"
       ELSE "general"

\* ---------------------------------------------------------------- os.walk
HasSlash(s, a, b) == \E j \in a..b : s[j] = "/"

StartsWith(s, pre) == Len(s) >= Len(pre) /\ SubSeq(s, 1, Len(pre)) = pre

EndsWith(s, suf) ==
    Len(s) >= Len(suf) /\ SubSeq(s, Len(s) - Len(suf) + 1, Len(s)) = suf

\* os.path.isfile(directory)
isfile(directory) == directory \in Files

\* the files os.walk lists for the directory `root`
FilesIn(root) ==
    { f \in Files : /\ StartsWith(f, root \o <<"/">>)
                    /\ ~HasSlash(f, Len(root) + 2, Len(f)) }

\* os.path.join(root, d) for every directory d os.walk lists for `root`
DirsIn(root) ==
    { SubSeq(f, 1, j - 1) :
        <<f, j>> \in { fj \in Files \X (1..8) :
                         /\ fj[2] <= Len(fj[1])
                         /\ fj[1][fj[2]] = "/"
                         /\ fj[2] > Len(root) + 1
                         /\ StartsWith(fj[1], root \o <<"/">>)
                         /\ ~HasSlash(fj[1], Len(root) + 2, fj[2] - 1) } }

\* the name of a file: what follows the last separator
Basename(f) ==
    LET last == CHOOSE j \in 0..Len(f) :
                   /\ (j = 0 \/ f[j] = "/")
                   /\ ~HasSlash(f, j + 1, Len(f))
    IN SubSeq(f, last + 1, Len(f))

\* file.endswith(('.ts', '.tsx')) and not file.endswith('.d.ts')
HasTsExtension(file) ==
    /\ EndsWith(file, <<".", "ts">>) \/ EndsWith(file, <<".", "tsx">>)
    /\ ~EndsWith(file, <<".", "d", ".", "ts">>)

RECURSIVE Walk(_, _)
\* the ts_files that the loop over os.walk(root) collects: the directories
\* whose joined path matches an exclude pattern are not descended into
Walk(root, patterns) ==
    { f \in FilesIn(root) :
        HasTsExtension(Basename(f)) /\ ~should_exclude_file(f, patterns) }
    \cup UNION { Walk(d, patterns) :
                   d \in { d \in DirsIn(root) : ~should_exclude_file(d, patterns) } }

find_typescript_files(directory, patterns) == sorted(Walk(directory, patterns))

RECURSIVE Discover(_, _)
\* lines 210-216: the loop of run over `directories`
Discover(directories, patterns) ==
    IF directories = <<>> THEN <<>>
    ELSE (IF isfile(Head(directories)) THEN <<Head(directories)>>
          ELSE find_typescript_files(Head(directories), patterns))
         \o Discover(Tail(directories), patterns)

\* ------------------------------------------------------------ process_file
Out(msg, path, n) == [msg |-> msg, path |-> path, n |-> n, before |-> <<>>, after |-> <<>>]

RECURSIVE StripLeft(_)
StripLeft(s) == IF s # <<>> /\ IsSpace(Head(s)) THEN StripLeft(Tail(s)) ELSE s

RECURSIVE StripRight(_)
StripRight(s) ==
    IF s # <<>> /\ IsSpace(s[Len(s)]) THEN StripRight(SubSeq(s, 1, Len(s) - 1)) ELSE s

\* str.strip()
strip(s) == StripRight(StripLeft(s))

RegexWarnings(ws) == [j \in 1..Len(ws) |-> Out("Warning: Regex error with pattern", <<>>, ws[j])]

\* lines 172-177: the body of the loop over the lines, for line number i;
\* `acc` is what the earlier iterations have built
LineStep(acc, r, i, before, dry) ==
    IF r.raised THEN [acc EXCEPT !.raised = TRUE]
    ELSE [modified_lines |-> Append(acc.modified_lines, r.line),
          file_changes   |-> acc.file_changes + r.changes,
          out |-> acc.out \o RegexWarnings(r.warnings)
                    \o (IF r.changes > 0 /\ ~dry
                        THEN << [msg |-> "Line", path |-> <<>>, n |-> i,
                                 before |-> strip(before),
                                 after  |-> strip(r.line)] >>
                        ELSE <<>>),
          raised |-> FALSE]

RECURSIVE LineLoop(_, _, _, _, _)
\* lines 168-177: the loop over the lines from line number i on
LineLoop(lines, i, ctx, dry, acc) ==
    IF i > Len(lines) \/ acc.raised THEN acc
    ELSE LineLoop(lines, i + 1, ctx, dry,
                  LineStep(acc, process_line(lines[i], ctx), i, lines[i], dry))

\* what process_file hands back: the returned value, the files afterwards,
\* what it printed, what it added to self.changes_made, whether it opened
\* the file for writing, whether an exception left it
Nothing(d) == [ret |-> FALSE, disk |-> d, out |-> <<>>, changes |-> 0,
               wrote |-> FALSE, raised |-> FALSE]

\* a read failure that nothing catches
CouldNotRead_unhandled(file_path, d) == [Nothing(d) EXCEPT !.raised = TRUE]

\* lines 160-165: open or readlines raised UnicodeDecodeError or IOError
CouldNotRead(file_path, d) ==
    [Nothing(d) EXCEPT !.out = << Out("Warning: Could not read", file_path, 0) >>]

\* the report and the write without the test of self.dry_run
Modify_ignores_dry_run(file_path, d, l, dry) ==
    [ret |-> TRUE,
     disk |-> [d EXCEPT ![file_path] = writelines(l.modified_lines)],
     out |-> l.out \o << Out("Modified", file_path, l.file_changes) >>,
     changes |-> l.file_changes, wrote |-> TRUE, raised |-> FALSE]

\* lines 179-188: the file has changes: report it, or write it and report it
Modify(file_path, d, l, dry) ==
    IF dry
    THEN [ret |-> TRUE, disk |-> d,
          out |-> l.out \o << Out("[DRY RUN] Would modify", file_path,
                                  l.file_changes) >>,
          changes |-> l.file_changes, wrote |-> FALSE, raised |-> FALSE]
    ELSE [ret |-> TRUE,
          disk |-> [d EXCEPT ![file_path] = writelines(l.modified_lines)],
          out |-> l.out \o << Out("Modified", file_path, l.file_changes) >>,
          changes |-> l.file_changes, wrote |-> TRUE, raised |-> FALSE]

\* process_file(file_path) on the files d
process_file(file_path, d, dry, patterns) ==
    IF should_exclude_file(file_path, patterns) THEN Nothing(d)
    ELSE IF ~d[file_path].readable THEN CouldNotRead(file_path, d)
    ELSE LET lines == readlines(d[file_path])
             l == LineLoop(lines, 1, get_file_context(file_path), dry,
                           [modified_lines |-> <<>>, file_changes |-> 0,
                            out |-> <<>>, raised |-> FALSE])
         IN IF l.raised THEN [Nothing(d) EXCEPT !.out = l.out, !.raised = TRUE]
            ELSE IF l.file_changes > 0 THEN Modify(file_path, d, l, dry)
            ELSE [Nothing(d) EXCEPT !.out = l.out]

\* --------------------------------------------------------------- main, run
\* no call of process_line is being stepped through
LineIdle ==
    /\ line = <<>>
    /\ original_line = <<>>
    /\ file_context = "general"
    /\ changes = 0
    /\ lpc = "none"
    /\ rule_idx = 0
    /\ warnings = <<>>
    /\ call_no = 0
    /\ first_result = <<>>
    /\ applied = <<>>

\* main has parsed the arguments, built the replacer and extended its
\* exclude patterns; run is about to start
Init ==
    /\ paths \in UNION { [1..n -> Roots] : n \in 1..MaxArgs }
    /\ dry_run \in BOOLEAN
    /\ \E extra \in ExcludeArgs : exclude_patterns = builtin_exclude_patterns \o extra
    /\ \E va \in Contents, ut \in Contents :
         disk = [f \in Files |->
                   IF f = SortedPaths[1] THEN va
                   ELSE IF f = SortedPaths[6] THEN ut
                   ELSE LfFile]
    /\ disk0 = disk
    /\ pc = "run"
    /\ all_files = <<>>
    /\ file_idx = 0
    /\ changes_made = 0
    /\ files_processed = 0
    /\ files_modified = 0
    /\ stdout = <<>>
    /\ written = <<>>
    /\ exit_status = -1
    /\ LineIdle

\* run, lines 210-223: the candidate list, its count and the banner
StartRun ==
    /\ pc = "run"
    /\ all_files' = Discover(paths, exclude_patterns)
    /\ stdout' = stdout \o << Out("Found", <<>>, Len(all_files')) >>
                    \o (IF dry_run THEN << Out("=== DRY RUN MODE", <<>>, 0) >> ELSE <<>>)
    /\ files_modified' = 0
    /\ file_idx' = 1
    /\ pc' = "loop"
    /\ UNCHANGED <<disk, disk0, paths, dry_run, exclude_patterns, changes_made,
                   files_processed, written, exit_status>>
    /\ UNCHANGED lineVars

\* run, lines 225-228: one iteration of the loop over all_files; an
\* exception that leaves process_file ends run, and main returns 1
ProcessNextFile ==
    /\ pc = "loop"
    /\ file_idx <= Len(all_files)
    /\ \E r \in { process_file(all_files[file_idx], disk, dry_run, exclude_patterns) } :
          /\ files_processed' = files_processed + 1
          /\ IF r.raised
             THEN /\ stdout' = stdout \o r.out \o << Out("Error", <<>>, 0) >>
                  /\ pc' = "failed"
                  /\ exit_status' = 1
                  /\ UNCHANGED <<disk, changes_made, files_modified, written, file_idx>>
             ELSE /\ disk' = r.disk
                  /\ stdout' = stdout \o r.out
                  /\ changes_made' = changes_made + r.changes
                  /\ files_modified' = files_modified + (IF r.ret THEN 1 ELSE 0)
                  /\ written' = IF r.wrote THEN Append(written, all_files[file_idx])
                                ELSE written
                  /\ file_idx' = file_idx + 1
                  /\ UNCHANGED <<pc, exit_status>>
    /\ UNCHANGED <<disk0, paths, dry_run, exclude_patterns, all_files>>
    /\ UNCHANGED lineVars

\* run, lines 230-236, and the return of main
Summary ==
    /\ pc = "loop"
    /\ file_idx > Len(all_files)
    /\ stdout' = stdout \o << Out("Summary:", <<>>, 0),
                              Out("Files processed", <<>>, files_processed),
                              Out("Files modified", <<>>, files_modified),
                              Out("Total changes", <<>>, changes_made) >>
                    \o (IF dry_run
                        THEN << Out("Run without --dry-run to apply changes", <<>>, 0) >>
                        ELSE <<>>)
    /\ pc' = "done"
    /\ exit_status' = 0
    /\ UNCHANGED <<disk, disk0, paths, dry_run, exclude_patterns, all_files,
                   file_idx, changes_made, files_processed, files_modified, written>>
    /\ UNCHANGED lineVars

Next == StartRun \/ ProcessNextFile \/ Summary

Spec == Init /\ [][Next]_vars

\* ---------------------------------------------------------- run: properties
\* the loop of run is about to hand all_files[file_idx] to process_file
AtFile == pc = "loop" /\ file_idx <= Len(all_files)

CurrentFile == all_files[file_idx]

Excluded(f) ==
    \E j \in 1..Len(exclude_patterns) : Search(exclude_patterns[j], f)

\* the results of process_line on the lines of f as the files d hold it
LineResults(f, d) ==
    [j \in 1..Len(d[f].lines) |->
        process_line(readlines(d[f])[j], get_file_context(f))]

RECURSIVE SumChanges(_)
SumChanges(rs) == IF rs = <<>> THEN 0 ELSE Head(rs).changes + SumChanges(Tail(rs))

\* the cumulative change count of f: none for a file that is not read
FileChanges(f, d) ==
    IF Excluded(f) \/ ~d[f].readable THEN 0 ELSE SumChanges(LineResults(f, d))

C2_Step ==
    AtFile =>
        \A n \in { FileChanges(CurrentFile, disk) } :
            /\ written' \in { written, Append(written, CurrentFile) }
            /\ (written' # written) <=> (~dry_run /\ n > 0)
            /\ written' # written =>
                 readlines(disk'[CurrentFile])
                   = [j \in 1..Len(disk[CurrentFile].lines) |->
                        LineResults(CurrentFile, disk)[j].line]
            /\ written' = written => disk' = disk
            /\ \A g \in Files \ {CurrentFile} : disk'[g] = disk[g]
            /\ n = 0 => files_modified' = files_modified

\* C2: a dry run leaves every file as it was; otherwise a file is opened
\* for writing exactly when its change count is above zero, what is then on
\* disk reads back as the transformed lines, and a file with no change is
\* neither written nor counted as modified
C2_WrittenIffChanged == [][C2_Step]_vars /\ [](dry_run => disk = disk0)

\* a run without --dry-run has rewritten one file and left another alone
C2_Witness ==
    /\ pc = "done"
    /\ ~dry_run
    /\ written # <<>>
    /\ disk # disk0
    /\ files_modified < files_processed

\* a proper directory prefix of f matches an exclude pattern
BeneathExcluded(f) ==
    \E j \in 2..Len(f) : f[j] = "/" /\ Excluded(SubSeq(f, 1, j - 1))

\* C4: the candidate list holds no file whose path matches an exclude
\* pattern and no file beneath an excluded directory
C4_NoExcludedCandidate ==
    \A j \in 1..Len(all_files) :
        ~Excluded(all_files[j]) /\ ~BeneathExcluded(all_files[j])

\* C5: the candidate list is sorted as a whole, so the files are processed
\* in ascending order of their paths
C5_SortedAsAWhole ==
    \A i, j \in 1..Len(all_files) :
        i < j => PathLE(all_files[i], all_files[j])

\* the reports "Modified"/"[DRY RUN] Would modify" of a run, as <<path, n>>
RECURSIVE FileReports(_)
FileReports(out) ==
    IF out = <<>> THEN <<>>
    ELSE (IF Head(out).msg \in {"Modified", "[DRY RUN] Would modify"}
          THEN << <<Head(out).path, Head(out).n>> >> ELSE <<>>)
         \o FileReports(Tail(out))

\* what the dry run reports for the candidates fs: it reads every file as
\* it was at the start
RECURSIVE DryRunReports(_)
DryRunReports(fs) ==
    IF fs = <<>> THEN <<>>
    ELSE (IF FileChanges(Head(fs), disk0) > 0
          THEN << <<Head(fs), FileChanges(Head(fs), disk0)>> >> ELSE <<>>)
         \o DryRunReports(Tail(fs))

RECURSIVE SumReports(_)
SumReports(rs) == IF rs = <<>> THEN 0 ELSE Head(rs)[2] + SumReports(Tail(rs))

\* C6: a run ends with the counts and the per-file reports of the dry run
\* on the same files and arguments, whether or not it is a dry run
C6_SameReportAsDryRun ==
    pc = "done" =>
        \A rs \in { DryRunReports(all_files) } :
            /\ FileReports(stdout) = rs
            /\ files_processed = Len(all_files)
            /\ files_modified = Len(rs)
            /\ changes_made = SumReports(rs)

UnreadableNext == AtFile /\ ~Excluded(CurrentFile) /\ ~disk[CurrentFile].readable

C7_Step ==
    UnreadableNext =>
        /\ stdout' = Append(stdout, Out("Warning: Could not read", CurrentFile, 0))
        /\ disk' = disk
        /\ written' = written
        /\ changes_made' = changes_made
        /\ files_modified' = files_modified
        /\ pc' = "loop"
        /\ file_idx' = file_idx + 1

C7_Inv ==
    /\ pc \in {"run", "loop", "done"}
    /\ pc = "loop" => file_idx \in 1..(Len(all_files) + 1)
    /\ files_processed = (IF pc = "run" THEN 0 ELSE file_idx - 1)
    /\ \A f \in Files : ~disk0[f].readable => disk[f] = disk0[f]
    /\ pc = "done" =>
         /\ files_processed = Len(all_files)
         /\ \E j \in 1..Len(stdout) :
              stdout[j] = Out("Total changes", <<>>, changes_made)

\* C7: a file that cannot be read gets a warning and nothing else: it is
\* not written, adds nothing to the change total or the modified count and
\* stays as it was; the loop moves to the next candidate, never stops
\* before the end of the list, and the run ends with every candidate
\* handed to process_file and the summary printed
C7_UnreadableFileSkipped == [][C7_Step]_vars /\ []C7_Inv

\* a run has ended in which a file was reported after an unreadable one
C7_Witness ==
    /\ pc = "done"
    /\ \E i, j \in 1..Len(stdout) :
         /\ i < j
         /\ stdout[i].msg = "Warning: Could not read"
         /\ stdout[j].msg \in {"Modified", "[DRY RUN] Would modify"}

C9_Step ==
    (AtFile /\ written' # written) =>
        /\ Len(disk'[CurrentFile].lines) = Len(disk[CurrentFile].lines)
        /\ \A j \in 1..Len(disk[CurrentFile].lines) :
             /\ j <= Len(disk'[CurrentFile].lines)
             /\ disk'[CurrentFile].lines[j].eol = disk[CurrentFile].lines[j].eol
             /\ LineResults(CurrentFile, disk)[j].changes = 0 =>
                  disk'[CurrentFile].lines[j] = disk[CurrentFile].lines[j]

\* C9: a rewritten file has the lines it had, in their order, each with the
\* terminator it had on disk, and every line without a change is identical
C9_LinesAndTerminatorsKept == [][C9_Step]_vars

====
